---- MODULE Spec2Model ----
(***************************************************************************)
(* Model of eco-plc-gw.py: a modbus server thread that reads the shared    *)
(* holding registers (Share.v_hold_regs_d, guarded by Share.lock) while    *)
(* the main thread runs the jobs scheduler loop (EcogazJob, EcowattJob,    *)
(* DebugJob) that fetches the signals and rewrites the registers.          *)
(***************************************************************************)
EXTENDS Integers, Sequences, FiniteSets, TLC

\* ------------------------------------------------------------------------
\* bounds of the model
\* ------------------------------------------------------------------------
\* number of time.sleep() calls of the scheduler loop that are explored
MaxTicks == 3
\* number of records of a provider payload
MaxRecs == 2
\* number of midnights (Europe/Paris) that pass during the exploration
MaxDayShift == 1
\* seconds that a slow fetch (urlopen, read) takes
FetchTime == 2

\* ------------------------------------------------------------------------
\* program constants
\* ------------------------------------------------------------------------
\* float('-inf'): last run time of a job built with runnable_now=True
NegInf == -1
\* every_s of ecogaz_job and ecowatt_job
EcoEvery == 3600
\* every_s of debug_job
DebugEvery == 5
\* time.sleep(1.0) of the jobs update loop
TickS == 1
\* range(6) of EcogazJob.run, range(4) of EcowattJob.run
GazDays == 6
WattDays == 4
\* first register of each block: d_idx and 100 + d_idx
GazBase == 0
WattBase == 100
\* default of odre_js_d.get(day_date, 0) and dict(value=0, message='')
NoData == 0

\* dict(ecogaz=ecogaz_job, ecowatt=ecowatt_job, debug=debug_job), in order
JobOrder == <<"ecogaz", "ecowatt", "debug">>
Jobs == {"ecogaz", "ecowatt", "debug"}
EcoJobs == {"ecogaz", "ecowatt"}

\* both jobs write from register 0
BaseShared(j) == GazBase

Base(j) == IF j = "ecogaz" THEN GazBase ELSE WattBase
NDays(j) == IF j = "ecogaz" THEN GazDays ELSE WattDays
Block(j) == Base(j) .. (Base(j) + NDays(j) - 1)
EverySOf(j) == IF j = "debug" THEN DebugEvery ELSE EcoEvery

\* Share.v_hold_regs_d as the class body builds it
InitRegs ==
  [a \in (0..5) \cup (100..103) |-> IF a = 3 THEN 4 ELSE IF a = 4 THEN 5 ELSE 0]

\* ------------------------------------------------------------------------
\* python dict helpers
\* ------------------------------------------------------------------------
EmptyDict == [x \in {} |-> 0]

\* d[k] = v
DictSet(d, k, v) == [x \in (DOMAIN d) \cup {k} |-> IF x = k THEN v ELSE d[x]]

\* d.get(k, dflt)
DictGet(d, k, dflt) == IF k \in DOMAIN d THEN d[k] ELSE dflt

SetMin(S) == CHOOSE x \in S : \A y \in S : x <= y

\* sorted(keys): ascending
RECURSIVE Sorted(_)
Sorted(S) == IF S = {} THEN <<>>
             ELSE LET m == SetMin(S) IN <<m>> \o Sorted(S \ {m})

\* ------------------------------------------------------------------------
\* provider payloads (what urlopen(...).read() and json.loads give)
\* ------------------------------------------------------------------------
\* a JSON field of a record: t is "int" (a number or a numeric string, worth
\* v), "date" (a date string of day number v), "text" (a string that is
\* neither), "null" (JSON null) or "missing" (no such key)
IntField(v) == [t |-> "int", v |-> v]
DateField(v) == [t |-> "date", v |-> v]
TextField == [t |-> "text", v |-> 0]
NullField == [t |-> "null", v |-> 0]
MissingField == [t |-> "missing", v |-> 0]

\* record[key]: KeyError when the key is missing
Subscript(f) == IF f.t = "missing" THEN [exc |-> "KeyError", v |-> 0]
                ELSE [exc |-> "none", v |-> f.v]

\* int(x): TypeError on None, ValueError on a non numeric string
IntOf(f) == IF f.t = "missing" THEN [exc |-> "KeyError", v |-> 0]
            ELSE IF f.t = "null" THEN [exc |-> "TypeError", v |-> 0]
            ELSE IF f.t = "int" THEN [exc |-> "none", v |-> f.v]
            ELSE [exc |-> "ValueError", v |-> 0]

\* dt_parse(x).date(): ParserError (a ValueError) on an unparsable string
DateOf(f) == IF f.t = "missing" THEN [exc |-> "KeyError", v |-> 0]
             ELSE IF f.t = "null" THEN [exc |-> "TypeError", v |-> 0]
             ELSE IF f.t = "date" THEN [exc |-> "none", v |-> f.v]
             ELSE [exc |-> "ValueError", v |-> 0]

\* days (relative to the day the process starts) and colour indexes that
\* the explored payloads carry
GoodPairs == { <<-1, 2>>, <<1, 2>>, <<3, 7>>, <<6, 2>> }

GoodRecords ==
  {[day |-> DateField(p[1]), val |-> IntField(p[2]), msg |-> TextField] :
     p \in GoodPairs}

BadRecords ==
  { [day |-> DateField(1), val |-> TextField, msg |-> TextField],
    [day |-> TextField, val |-> IntField(2), msg |-> TextField],
    [day |-> DateField(1), val |-> NullField, msg |-> TextField],
    [day |-> DateField(1), val |-> MissingField, msg |-> TextField],
    [day |-> DateField(1), val |-> IntField(2), msg |-> MissingField] }

Records == GoodRecords \cup BadRecords

Payloads == UNION {[1..n -> Records] : n \in 0..MaxRecs}

\* outcome of the HTTP round trip(s) and of json.loads
Responses ==
  {[kind |-> k, recs |-> <<>>] : k \in {"URLError", "badjson", "badshape", "nokey"}}
  \cup {[kind |-> "list", recs |-> p] : p \in Payloads}

\* one pass of the for loop of EcogazJob.run over a record: the right-hand
\* side int(...) is evaluated before the key dt_parse(...).date()
GazRecord(d, rec) ==
  LET v == IntOf(rec.val)
      k == DateOf(rec.day)
  IN IF v.exc # "none" THEN [d |-> d, exc |-> v.exc]
     ELSE IF k.exc # "none" THEN [d |-> d, exc |-> k.exc]
     ELSE [d |-> DictSet(d, k.v, v.v), exc |-> "none"]

\* one pass of the for loop of EcowattJob.run: dict(value=int(...),
\* message=...) then the key; only the value of the dict is kept here, the
\* message is never read again
WattRecord(d, rec) ==
  LET v == IntOf(rec.val)
      m == Subscript(rec.msg)
      k == DateOf(rec.day)
  IN IF v.exc # "none" THEN [d |-> d, exc |-> v.exc]
     ELSE IF m.exc # "none" THEN [d |-> d, exc |-> m.exc]
     ELSE IF k.exc # "none" THEN [d |-> d, exc |-> k.exc]
     ELSE [d |-> DictSet(d, k.v, v.v), exc |-> "none"]

\* the for loop over the records: stops at the first exception and leaves
\* in the dict what the earlier records put there
RECURSIVE DecodeFrom(_, _, _, _)
DecodeFrom(j, recs, i, d) ==
  IF i > Len(recs) THEN [d |-> d, exc |-> "none"]
  ELSE LET r == IF j = "ecogaz" THEN GazRecord(d, recs[i])
                ELSE WattRecord(d, recs[i])
       IN IF r.exc # "none" THEN r ELSE DecodeFrom(j, recs, i + 1, r.d)

\* the try block of EcogazJob.run: urlopen, json.loads, the for loop
GazTry(resp) ==
  IF resp.kind = "URLError" THEN [d |-> EmptyDict, exc |-> "URLError"]
  ELSE IF resp.kind = "badjson" THEN [d |-> EmptyDict, exc |-> "JSONDecodeError"]
  ELSE IF resp.kind = "badshape" THEN [d |-> EmptyDict, exc |-> "TypeError"]
  ELSE IF resp.kind = "nokey" THEN [d |-> EmptyDict, exc |-> "KeyError"]
  ELSE DecodeFrom("ecogaz", resp.recs, 1, EmptyDict)

\* the try block of EcowattJob.run: the token request fails with an
\* HTTPError (a URLError) unless the credentials are valid
WattTry(cr, resp) ==
  IF cr # "valid" THEN [d |-> EmptyDict, exc |-> "URLError"]
  ELSE IF resp.kind = "URLError" THEN [d |-> EmptyDict, exc |-> "URLError"]
  ELSE IF resp.kind = "badjson" THEN [d |-> EmptyDict, exc |-> "JSONDecodeError"]
  ELSE IF resp.kind = "badshape" THEN [d |-> EmptyDict, exc |-> "TypeError"]
  ELSE IF resp.kind = "nokey" THEN [d |-> EmptyDict, exc |-> "KeyError"]
  ELSE DecodeFrom("ecowatt", resp.recs, 1, EmptyDict)

\* EcogazJob.run without its except URLError clause
GazCaughtNoURL == {"JSONDecodeError", "ValueError"}

\* the except clauses of each run()
GazCaught == {"URLError", "JSONDecodeError", "ValueError"}
WattCaught == {"URLError", "JSONDecodeError", "ValueError", "KeyError"}
Caught(j) == IF j = "ecogaz" THEN GazCaught ELSE WattCaught

\* a window that is one day short
WindowShort(j, fetched, day) ==
  [x \in day .. (day + NDays(j) - 2) |-> DictGet(fetched, x, NoData)]

\* daily_d of a run: the days today .. today + N - 1, each with the fetched
\* value or the default
Window(j, fetched, day) ==
  [x \in day .. (day + NDays(j) - 1) |-> DictGet(fetched, x, NoData)]

\* ------------------------------------------------------------------------
\* state
\* ------------------------------------------------------------------------
VARIABLES
  creds,       \* private_data: "valid", "invalid" or "absent" (no module)
  enable,      \* Job.enable of each job (debug_job: args.debug)
  runnable_now, \* the runnable_now argument each job is built with
  pc,          \* position of the main thread
  cur,         \* index in JobOrder of the job of the for loop
  last_run_t,  \* Job._last_run_t of each job
  now,         \* time.monotonic()
  today,       \* dt.now(tz=Europe/Paris).date(), as a day number
  ticks,       \* number of time.sleep() calls done
  regs,        \* Share.v_hold_regs_d
  lock,        \* Share.lock: "free", "main" or "server"
  exc,         \* exception raised by the try block of the current run
  fetched,     \* odre_js_d / fmt_js_d of the current run
  daily_d,     \* daily_d of the current run
  d_idx,       \* number of registers written by the current run
  rd_pc,       \* position of the server thread in get_holding_registers
  rd_addr,     \* address argument
  rd_num,      \* number argument
  rd_acc,      \* values collected so far by the list comprehension
  rd_result,   \* what the last call returned: ok = FALSE is None
  runs,        \* history: number of runs started, per job
  done_runs,   \* history: number of runs completed, per job
  ver,         \* history: per register, the run of its job that wrote it
  rd_vers,     \* history: ver of the registers collected in rd_acc
  last_batch,  \* history: the values written by the last completed run
  net_failed   \* history: the last completed run had a network error

vars == <<creds, enable, runnable_now, pc, cur, last_run_t, now, today, ticks, regs, lock,
          exc, fetched, daily_d, d_idx, rd_pc, rd_addr, rd_num, rd_acc,
          rd_result, runs, done_runs, ver, rd_vers, last_batch, net_failed>>

mainVars == <<pc, cur, last_run_t, now, today, ticks, exc, fetched, daily_d,
              d_idx, runs, done_runs, last_batch, net_failed>>
rdVars == <<rd_pc, rd_addr, rd_num, rd_acc, rd_result, rd_vers>>
cfgVars == <<creds, enable, runnable_now>>

CurJob == JobOrder[cur]

\* a job that is runnable at once whatever its runnable_now
JobInitAlwaysRunnable(rn, t) == NegInf

\* Job.__init__: self._last_run_t
JobInit(rn, t) == IF rn THEN NegInf ELSE t

\* (address, number) arguments of the explored read requests
ReadReqs == { <<0, 0>>, <<0, 6>>, <<0, 7>>, <<3, 2>>, <<5, 96>>, <<99, 2>>,
              <<100, 4>>, <<104, 1>> }

\* time.sleep(1.0) lasts one second or, when the thread is not rescheduled
\* at once, longer
SleepSteps == {TickS, DebugEvery, EcoEvery}

\* the state at the start of the process, for jobs built with a
\* runnable_now of the set RN
InitWith(RN) ==
  /\ creds \in {"valid", "invalid", "absent"}
  /\ runnable_now \in RN
  /\ enable \in {[j \in Jobs |-> IF j = "debug" THEN dbg ELSE TRUE] : dbg \in BOOLEAN}
  /\ pc = "import"
  /\ cur = 1
  /\ last_run_t = [j \in Jobs |-> NegInf]
  /\ now = 0
  /\ today = 0
  /\ ticks = 0
  /\ regs = InitRegs
  /\ lock = "free"
  /\ exc = "none"
  /\ fetched = EmptyDict
  /\ daily_d = EmptyDict
  /\ d_idx = 0
  /\ rd_pc = "idle"
  /\ rd_addr = 0
  /\ rd_num = 0
  /\ rd_acc = <<>>
  /\ rd_result = [ok |-> FALSE, vals |-> <<>>]
  /\ runs = [j \in Jobs |-> 0]
  /\ done_runs = [j \in Jobs |-> 0]
  /\ ver = [a \in DOMAIN InitRegs |-> 0]
  /\ rd_vers = <<>>
  /\ last_batch = [j \in EcoJobs |-> <<>>]
  /\ net_failed = [j \in EcoJobs |-> FALSE]

\* __main__ builds its three jobs with runnable_now=True
Init == InitWith({[j \in Jobs |-> TRUE]})

\* ------------------------------------------------------------------------
\* main thread
\* ------------------------------------------------------------------------
\* from private_data import ...: ImportError ends the process before the
\* server starts
ImportFails == creds = "absent"

\* module imports, server.start(), jobs creation
Startup ==
  /\ pc = "import"
  /\ IF ImportFails
       THEN /\ pc' = "import_failed"
            /\ UNCHANGED last_run_t
       ELSE /\ pc' = "update"
            /\ last_run_t' = [j \in Jobs |-> JobInit(runnable_now[j], now)]
  /\ UNCHANGED <<cur, now, today, ticks, exc, fetched, daily_d, d_idx, runs,
                 done_runs, last_batch, net_failed, regs, lock, ver>>
  /\ UNCHANGED rdVars /\ UNCHANGED cfgVars

\* a test of Job.update that forgets self.enable
DueIgnoringEnable(j) ==
  \/ last_run_t[j] = NegInf
  \/ now - last_run_t[j] > EverySOf(j)

\* a test of Job.update that runs the job as soon as every_s has passed
DueAtInterval(j) ==
  /\ enable[j]
  /\ \/ last_run_t[j] = NegInf
     \/ now - last_run_t[j] >= EverySOf(j)

\* the test of Job.update
Due(j) ==
  /\ enable[j]
  /\ \/ last_run_t[j] = NegInf
     \/ now - last_run_t[j] > EverySOf(j)

\* position of the main thread when job.update() returns
AfterUpdate ==
  IF cur < Len(JobOrder)
    THEN /\ cur' = cur + 1
         /\ pc' = "update"
    ELSE /\ cur' = 1
         /\ pc' = "sleep"

\* an update that leaves the stamp to the end of run()
StartStampKept(j) == last_run_t[j]

\* self._last_run_t = time.monotonic(), before self.run()
StartStamp(j) == now

\* a job.update() that starts run() in the background and returns at once
UpdateDetached ==
  /\ pc = "update"
  /\ IF Due(CurJob)
       THEN /\ last_run_t' = [last_run_t EXCEPT ![CurJob] = now]
            /\ runs' = [runs EXCEPT ![CurJob] = @ + 1]
       ELSE UNCHANGED <<last_run_t, runs>>
  /\ AfterUpdate
  /\ UNCHANGED <<now, today, ticks, exc, fetched, daily_d, d_idx, done_runs,
                 last_batch, net_failed, regs, lock, ver>>
  /\ UNCHANGED rdVars /\ UNCHANGED cfgVars

\* job.update(): stamps and enters run() when the job is due
Update ==
  /\ pc = "update"
  /\ IF Due(CurJob)
       THEN /\ last_run_t' = [last_run_t EXCEPT ![CurJob] = StartStamp(CurJob)]
            /\ runs' = [runs EXCEPT ![CurJob] = @ + 1]
            /\ pc' = IF CurJob = "debug" THEN "debug_lock" ELSE "fetch"
            /\ cur' = cur
       ELSE /\ AfterUpdate
            /\ UNCHANGED <<last_run_t, runs>>
  /\ UNCHANGED <<now, today, ticks, exc, fetched, daily_d, d_idx, done_runs,
                 last_batch, net_failed, regs, lock, ver>>
  /\ UNCHANGED rdVars /\ UNCHANGED cfgVars

\* DebugJob.run: with Share.lock
DebugAcquire ==
  /\ pc = "debug_lock"
  /\ lock = "free"
  /\ lock' = "main"
  /\ pc' = "debug_log"
  /\ UNCHANGED <<cur, last_run_t, now, today, ticks, exc, fetched, daily_d,
                 d_idx, runs, done_runs, last_batch, net_failed, regs, ver>>
  /\ UNCHANGED rdVars /\ UNCHANGED cfgVars

\* DebugJob.run: logging.debug, end of the with block, return
DebugRelease ==
  /\ pc = "debug_log"
  /\ lock' = "free"
  /\ done_runs' = [done_runs EXCEPT !["debug"] = @ + 1]
  /\ AfterUpdate
  /\ UNCHANGED <<last_run_t, now, today, ticks, exc, fetched, daily_d, d_idx,
                 runs, last_batch, net_failed, regs, ver>>
  /\ UNCHANGED rdVars /\ UNCHANGED cfgVars

\* result of the try block of run() for a response
Try(j, resp) == IF j = "ecogaz" THEN GazTry(resp) ELSE WattTry(creds, resp)

\* the try/except of EcogazJob.run and EcowattJob.run: an exception that no
\* except clause names leaves run(), update() and the jobs update loop
Fetch(resp, dt) ==
  /\ pc = "fetch"
  /\ LET r == Try(CurJob, resp)
     IN /\ exc' = r.exc
        /\ fetched' = r.d
        /\ pc' = IF r.exc = "none" \/ r.exc \in Caught(CurJob)
                   THEN "window" ELSE "crashed"
  /\ now' = now + dt
  /\ UNCHANGED <<cur, last_run_t, today, ticks, daily_d, d_idx, runs,
                 done_runs, last_batch, net_failed, regs, lock, ver>>
  /\ UNCHANGED rdVars /\ UNCHANGED cfgVars

\* urlopen(...) is called with no timeout: a provider that never answers
\* keeps the main thread in the call for ever
Hang ==
  /\ pc = "fetch"
  /\ pc' = "hung"
  /\ UNCHANGED <<cur, last_run_t, now, today, ticks, exc, fetched, daily_d,
                 d_idx, runs, done_runs, last_batch, net_failed, regs, lock,
                 ver>>
  /\ UNCHANGED rdVars /\ UNCHANGED cfgVars

\* the loop that builds daily_d
BuildWindow ==
  /\ pc = "window"
  /\ daily_d' = Window(CurJob, fetched, today)
  /\ pc' = "acquire"
  /\ UNCHANGED <<cur, last_run_t, now, today, ticks, exc, fetched, d_idx,
                 runs, done_runs, last_batch, net_failed, regs, lock, ver>>
  /\ UNCHANGED rdVars /\ UNCHANGED cfgVars

\* a registers update that does not wait for the lock
LockAlways == TRUE

\* with Share.lock: of the registers update
LockFree == lock = "free"

WriteAcquire ==
  /\ pc = "acquire"
  /\ LockFree
  /\ lock' = "main"
  /\ d_idx' = 0
  /\ pc' = "write"
  /\ UNCHANGED <<cur, last_run_t, now, today, ticks, exc, fetched, daily_d,
                 runs, done_runs, last_batch, net_failed, regs, ver>>
  /\ UNCHANGED rdVars /\ UNCHANGED cfgVars

\* the dates of daily_d, most recent first
WriteOrderDesc(d) ==
  LET asc == Sorted(DOMAIN d)
  IN [i \in 1..Len(asc) |-> asc[Len(asc) + 1 - i]]

\* the dates of daily_d in the order the registers update visits them
WriteOrder(d) == Sorted(DOMAIN d)

\* one pass of for d_idx, date in enumerate(sorted(daily_d.keys()))
WriteStep ==
  /\ pc = "write"
  /\ d_idx < Len(WriteOrder(daily_d))
  /\ LET a == Base(CurJob) + d_idx
         v == daily_d[WriteOrder(daily_d)[d_idx + 1]]
     IN /\ regs' = DictSet(regs, a, v)
        /\ ver' = DictSet(ver, a, done_runs[CurJob] + 1)
  /\ d_idx' = d_idx + 1
  /\ UNCHANGED <<pc, cur, last_run_t, now, today, ticks, exc, fetched,
                 daily_d, runs, done_runs, last_batch, net_failed, lock>>
  /\ UNCHANGED rdVars /\ UNCHANGED cfgVars

\* a run() that keeps the lock when it returns
WriteExitLockKept == "main"

\* Share.lock at the end of the with block of the registers update
WriteExitLock == "free"

\* end of the with block, run() and update() return (the locals of run()
\* are gone)
WriteRelease ==
  /\ pc = "write"
  /\ d_idx = Len(WriteOrder(daily_d))
  /\ lock' = WriteExitLock
  /\ done_runs' = [done_runs EXCEPT ![CurJob] = @ + 1]
  /\ last_batch' = [last_batch EXCEPT ![CurJob] =
                      [k \in 1..d_idx |-> regs[Base(CurJob) + k - 1]]]
  /\ net_failed' = [net_failed EXCEPT ![CurJob] = (exc = "URLError")]
  /\ exc' = "none"
  /\ fetched' = EmptyDict
  /\ daily_d' = EmptyDict
  /\ d_idx' = 0
  /\ AfterUpdate
  /\ UNCHANGED <<last_run_t, now, today, ticks, runs, regs, ver>>
  /\ UNCHANGED rdVars /\ UNCHANGED cfgVars

\* time.sleep(1.0), then the next pass of while True
Sleep(d, shift) ==
  /\ pc = "sleep"
  /\ ticks < MaxTicks
  /\ today + shift <= MaxDayShift
  /\ ticks' = ticks + 1
  /\ now' = now + d
  /\ today' = today + shift
  /\ pc' = "update"
  /\ UNCHANGED <<cur, last_run_t, exc, fetched, daily_d, d_idx, runs,
                 done_runs, last_batch, net_failed, regs, lock, ver>>
  /\ UNCHANGED rdVars /\ UNCHANGED cfgVars

\* ------------------------------------------------------------------------
\* server thread: MyDataBank.get_holding_registers
\* ------------------------------------------------------------------------
\* the server answers requests once started and as long as the process lives
Serving == pc \notin {"import", "import_failed", "crashed"}

\* a read request arrives: get_holding_registers(address, number)
RdRequest(a, n) ==
  /\ Serving
  /\ rd_pc \in {"idle", "done"}
  /\ rd_pc' = "wait"
  /\ rd_addr' = a
  /\ rd_num' = n
  /\ rd_acc' = <<>>
  /\ rd_vers' = <<>>
  /\ UNCHANGED rd_result
  /\ UNCHANGED mainVars /\ UNCHANGED cfgVars /\ UNCHANGED <<regs, lock, ver>>

\* with Share.lock:
RdAcquire ==
  /\ rd_pc = "wait"
  /\ lock = "free"
  /\ lock' = "server"
  /\ rd_pc' = "read"
  /\ UNCHANGED <<rd_addr, rd_num, rd_acc, rd_result, rd_vers>>
  /\ UNCHANGED mainVars /\ UNCHANGED cfgVars /\ UNCHANGED <<regs, ver>>

\* a lookup that gives 0 for a missing register
LookupZeroFill(d, a) == [exc |-> "none", v |-> DictGet(d, a, 0)]

\* Share.v_hold_regs_d[a]: the value, or KeyError
Lookup(d, a) == IF a \in DOMAIN d THEN [exc |-> "none", v |-> d[a]]
                ELSE [exc |-> "KeyError", v |-> 0]

\* a range that starts one register too far
RangeAddrShifted(address, i) == address + i + 1

\* the element of range(address, address + number) after i elements
RangeAddr(address, i) == address + i

\* a read that keeps the lock when KeyError ends it
KeyErrorExitLockKept == "server"

\* Share.lock when KeyError leaves the with block of the read
KeyErrorExitLock == "free"

\* one element of the list comprehension; KeyError leaves the with block
\* (the lock is released) and the call returns None
RdStep ==
  /\ rd_pc = "read"
  /\ Len(rd_acc) < rd_num
  /\ LET a == RangeAddr(rd_addr, Len(rd_acc))
         r == Lookup(regs, a)
     IN IF r.exc = "none"
          THEN /\ rd_acc' = Append(rd_acc, r.v)
               /\ rd_vers' = Append(rd_vers, DictGet(ver, a, 0))
               /\ UNCHANGED <<rd_pc, rd_result, lock>>
          ELSE /\ rd_pc' = "done"
               /\ rd_result' = [ok |-> FALSE, vals |-> <<>>]
               /\ lock' = KeyErrorExitLock
               /\ rd_acc' = <<>>
               /\ rd_vers' = <<>>
  /\ UNCHANGED <<rd_addr, rd_num>>
  /\ UNCHANGED mainVars /\ UNCHANGED cfgVars /\ UNCHANGED <<regs, ver>>

\* the list is complete: return it, the lock is released
RdReturn ==
  /\ rd_pc = "read"
  /\ Len(rd_acc) = rd_num
  /\ rd_pc' = "done"
  /\ rd_result' = [ok |-> TRUE, vals |-> rd_acc]
  /\ lock' = "free"
  /\ rd_acc' = <<>>
  /\ UNCHANGED <<rd_addr, rd_num, rd_vers>>
  /\ UNCHANGED mainVars /\ UNCHANGED cfgVars /\ UNCHANGED <<regs, ver>>

\* the scheduler loop and the jobs, for the responses RS of the providers,
\* the fetch durations FT, the sleep durations DS and the numbers SH of
\* midnights that pass during a sleep
NextJobs(RS, FT, DS, SH) ==
  \/ Startup
  \/ Update
  \/ DebugAcquire
  \/ DebugRelease
  \/ \E resp \in RS, dt \in FT : Fetch(resp, dt)
  \/ BuildWindow
  \/ WriteAcquire
  \/ WriteStep
  \/ WriteRelease
  \/ \E d \in DS, shift \in SH : Sleep(d, shift)

\* the modbus server thread, for the requests RQ
NextServer(RQ) ==
  \/ \E r \in RQ : RdRequest(r[1], r[2])
  \/ RdAcquire
  \/ RdStep
  \/ RdReturn

\* the explored fetches return at once; the time passes in time.sleep()
FetchTimes == {0}

\* the main thread alone, over every explored response
NextMain == NextJobs(Responses, FetchTimes, SleepSteps, {0, 1})

SpecJobs == Init /\ [][NextMain]_vars

\* a network error, and two payloads of one record
FewResponses ==
  { [kind |-> "URLError", recs |-> <<>>] }
  \cup {[kind |-> "list", recs |-> << r >>] :
          r \in {x \in GoodRecords : x.day.v \in {1, 3}}}

\* the main thread and the server thread; every pass of the scheduler loop
\* finds the jobs due
Next ==
  \/ NextJobs(FewResponses, FetchTimes, {EcoEvery + TickS}, {0})
  \/ NextServer(ReadReqs)

Spec == Init /\ [][Next]_vars

\* a fetch returns at once or takes FetchTime
SlowFetchTimes == {0, FetchTime}

\* the main thread alone, with fetches that take time
NextTime == NextJobs(FewResponses, SlowFetchTimes, SleepSteps, {0})

SpecTime == Init /\ [][NextTime]_vars

\* jobs built with either value of runnable_now
InitPolicy == InitWith([Jobs -> BOOLEAN])

NextPolicy == NextJobs(FewResponses, FetchTimes, SleepSteps, {0})

SpecPolicy == InitPolicy /\ [][NextPolicy]_vars

\* a thread that waits for Share.lock gets it when the lock is free again
\* and again, and a thread that holds it goes on to the end of its with block
LockFairness ==
  /\ SF_vars(WriteAcquire)
  /\ SF_vars(DebugAcquire)
  /\ SF_vars(RdAcquire)
  /\ WF_vars(WriteStep \/ WriteRelease \/ DebugRelease)
  /\ WF_vars(RdStep \/ RdReturn)

\* a read of a whole block and a read that ends with KeyError
LockReqs == { <<0, 6>>, <<5, 96>> }

\* both threads, with fetches that all end with a network error
NextLock ==
  \/ NextJobs({[kind |-> "URLError", recs |-> <<>>]}, FetchTimes,
              {EcoEvery + TickS}, {0})
  \/ NextServer(LockReqs)

SpecLock == Init /\ [][NextLock]_vars /\ LockFairness

\* the main thread alone, with fetches that may never return; the thread
\* always takes its next step when it has one
NextHang ==
  \/ NextJobs(FewResponses, FetchTimes, {EcoEvery + TickS}, {0})
  \/ Hang

SpecHang == Init /\ [][NextHang]_vars /\ WF_vars(NextHang)

\* ------------------------------------------------------------------------
\* properties
\* ------------------------------------------------------------------------
\* the registers of the documented modbus map
MapAddrs == (0..5) \cup (100..103)

\* the addresses of a read request
ReadRange == rd_addr .. (rd_addr + rd_num - 1)

\* the step in which get_holding_registers returns
Returns == rd_pc = "read" /\ rd_pc' = "done"

\* the step in which the run of job j returns
Completes(j) == done_runs'[j] = done_runs[j] + 1

\* job j is inside the with block of its registers update
Writing(j) == pc = "write" /\ CurJob = j

\* the registers update of the current run has written its last register
Written == pc = "write" /\ d_idx = Len(WriteOrder(daily_d))

\* C1: no outcome of the fetch of a job is fatal: run() never lets an
\* exception reach the jobs update loop, which goes on ticking.
C1_NoFatalOutcome == pc # "crashed"

\* C2: before the first run of the job that owns a block has completed, a
\* read of a range that includes an address of the block returns None.
C2_UnknownBeforeFirstRun ==
  \A j \in EcoJobs :
    (rd_pc = "done" /\ done_runs[j] = 0 /\ ReadRange \cap Block(j) # {})
      => ~rd_result.ok

\* C3: the registers of one block that a read collects were all written by
\* the same batch of the job of the block: a read never mixes the values of
\* two batches.
C3_NoMixedBatches ==
  \A i \in DOMAIN rd_vers : \A k \in DOMAIN rd_vers :
    (\E j \in EcoJobs : {rd_addr + i - 1, rd_addr + k - 1} \subseteq Block(j))
      => rd_vers[i] = rd_vers[k]

C3_Witness ==
  /\ rd_pc = "done"
  /\ rd_result.ok
  /\ rd_addr = 0
  /\ rd_num = 6
  /\ rd_vers[1] = 2
  /\ rd_result.vals[2] = 2

C5_CredentialsNotFatal == creds # "valid" => pc # "import_failed"

\* C6: outside of a registers update, every register of the block of a job
\* that has run holds a value written by the last completed run of the job.
C6_WholeWindowWritten ==
  \A j \in EcoJobs :
    (done_runs[j] > 0 /\ ~Writing(j))
      => \A a \in Block(j) : a \in DOMAIN regs /\ ver[a] = done_runs[j]

C6_Witness ==
  /\ done_runs["ecogaz"] = 2
  /\ done_runs["ecowatt"] = 2
  /\ net_failed["ecowatt"]
  /\ pc = "sleep"

\* C7: when a run has written its registers, register base + k holds the
\* fetched value of the day today + k, or 0 when the fetch has no such day.
C7_WindowByDate ==
  Written =>
    \A k \in 0 .. (NDays(CurJob) - 1) :
      /\ Base(CurJob) + k \in DOMAIN regs
      /\ regs[Base(CurJob) + k] =
           IF today + k \in DOMAIN fetched THEN fetched[today + k] ELSE 0

C7_Witness ==
  /\ Written
  /\ CurJob = "ecogaz"
  /\ today = 0
  /\ DOMAIN fetched = {1}
  /\ fetched[1] = 2
  /\ [k \in 1..6 |-> regs[k - 1]] = <<0, 2, 0, 0, 0, 0>>

\* C8: a job whose enable flag is false is never run and its last run time
\* never changes.
C8_DisabledNeverRuns ==
  [][\A j \in Jobs :
       ~enable[j] => /\ runs'[j] = runs[j]
                     /\ last_run_t'[j] = last_run_t[j]
                     /\ ~(pc' \in {"debug_lock", "fetch"} /\ JobOrder[cur'] = j)]_vars

C8_Witness ==
  /\ ~enable["debug"]
  /\ pc = "sleep"
  /\ ticks >= 2
  /\ now > 5
  /\ runs["debug"] = 0

\* C9: a read returns None when an address of its range is outside the
\* registers 0..5 and 100..103, and otherwise the list of the values of the
\* registers of the range, in ascending address order.
C9_ReadAllOrNone ==
  [][Returns =>
       IF ReadRange \subseteq MapAddrs
         THEN /\ rd_result'.ok
              /\ Len(rd_result'.vals) = rd_num
              /\ \A i \in 1..rd_num : rd_result'.vals[i] = regs[rd_addr + i - 1]
         ELSE /\ ~rd_result'.ok
              /\ rd_result'.vals = <<>>]_vars

C9_Witness ==
  /\ rd_pc = "done"
  /\ rd_addr = 5
  /\ rd_num = 96
  /\ ~rd_result.ok

\* C10: a read of a range inside the block of a job that has run returns, for
\* each address, the value that the last completed run of the job wrote.
C10_ReadsLastBatch ==
  [][Returns =>
       \A j \in EcoJobs :
         (done_runs[j] > 0 /\ ReadRange \subseteq Block(j))
           => /\ rd_result'.ok
              /\ \A i \in 1..rd_num :
                   rd_result'.vals[i] = last_batch[j][rd_addr + i - Base(j)]]_vars

C10_Witness ==
  /\ rd_pc = "done"
  /\ rd_result.ok
  /\ rd_addr = 3
  /\ rd_num = 2
  /\ done_runs["ecogaz"] = 2
  /\ rd_result.vals = <<7, 0>>


\* C11: every register holds a code of the documented encoding: 0..4 in the
\* registers 0..5, 0..3 in the registers 100..103, and always a 16 bits
\* unsigned integer.
C11_ValidCodes ==
  \A a \in DOMAIN regs :
    /\ regs[a] \in 0..65535
    /\ a \in 0..5 => regs[a] \in 0..4
    /\ a \in 100..103 => regs[a] \in 0..3

\* C12: a run whose decoding failed with an exception that the job catches
\* writes 0 in every register of its block.
C12_DecodeFailureWritesNoData ==
  (Written /\ exc \in {"JSONDecodeError", "ValueError", "KeyError"})
    => \A a \in Block(CurJob) : a \in DOMAIN regs /\ regs[a] = 0


\* the step in which job.update() is called for job j
Updates(j) == pc = "update" /\ CurJob = j /\ (pc' # pc \/ cur' # cur)

\* C13: job.update() runs the job exactly when it is enabled and more than
\* every_s has passed since its last run time (-inf at first), the start of
\* a run stamps the last run time whatever the fetch does afterwards, and
\* two consecutive runs of a job start more than every_s apart.
C13_RunsWhenDue ==
  [][\A j \in Jobs :
       /\ Updates(j) =>
            (runs'[j] = runs[j] + 1
               <=> (enable[j] /\ (last_run_t[j] = -1
                                    \/ now - last_run_t[j] > EverySOf(j))))
       /\ runs'[j] # runs[j] =>
            /\ Updates(j)
            /\ runs'[j] = runs[j] + 1
            /\ last_run_t'[j] = now
            /\ runs[j] > 0 => last_run_t'[j] - last_run_t[j] > EverySOf(j)
       /\ (pc \in {"fetch", "window", "acquire", "write"} /\ CurJob = j)
            => last_run_t'[j] = last_run_t[j]]_vars

C13_Witness ==
  /\ pc = "update"
  /\ cur = 2
  /\ runs["ecogaz"] = 1
  /\ now - last_run_t["ecogaz"] = 3600
  /\ net_failed["ecogaz"]


\* job j is between the call of its run() and its return
Running(j) == runs[j] > done_runs[j]

\* C17: at most one job is running, and it is the job of the current pass of
\* the for loop, which is inside its run(): no job is entered again while it
\* runs and no other job starts before it returns.
C17_OneJobAtATime ==
  /\ \A j \in Jobs : runs[j] - done_runs[j] \in {0, 1}
  /\ \A j \in Jobs, k \in Jobs : (Running(j) /\ Running(k)) => j = k
  /\ \A j \in Jobs :
       Running(j) => /\ JobOrder[cur] = j
                     /\ pc \notin {"import", "update", "sleep"}

C17_Witness ==
  /\ pc = "fetch"
  /\ JobOrder[cur] = "ecogaz"
  /\ runs["ecogaz"] = 2
  /\ now - last_run_t["ecowatt"] > 3600
  /\ enable["debug"]
  /\ now - last_run_t["debug"] > 5


\* C14 (as stated): the start of a run leaves the last run time alone, and
\* the return of run() stamps it with the time of the return.
C14_StampAfterRun ==
  [][\A j \in Jobs :
       /\ runs'[j] = runs[j] + 1 => last_run_t'[j] = last_run_t[j]
       /\ Completes(j) => last_run_t'[j] = now']_vars

\* C14 (amended): the job is found due, its last run time is stamped with
\* the time at that point, and only then run() is called; the return of
\* run() leaves the stamp alone, so that the next run is due more than
\* every_s after the previous run started.
C14_StampBeforeRun ==
  [][\A j \in Jobs :
       /\ runs'[j] = runs[j] + 1 =>
            /\ last_run_t'[j] = now
            /\ runs[j] > 0 => now - last_run_t[j] > EverySOf(j)
       /\ Completes(j) => /\ last_run_t'[j] = last_run_t[j]
                          /\ last_run_t[j] # -1
                          /\ last_run_t[j] <= now']_vars

C14_Witness ==
  /\ pc = "fetch"
  /\ JobOrder[cur] = "ecogaz"
  /\ runs["ecogaz"] = 2
  /\ ticks = 1
  /\ last_run_t["ecowatt"] = FetchTime
  /\ last_run_t["ecogaz"] = 3600 + FetchTime


\* C15: the first job.update() of an enabled job built with
\* runnable_now=True runs it; an enabled job built with runnable_now=False
\* is first run only when more than every_s has passed since it was built
\* (the jobs are built at time 0); once the jobs are built, a last run time
\* changes only when a run starts.
C15_CreationPolicy ==
  [][\A j \in Jobs :
       /\ (Updates(j) /\ ticks = 0 /\ enable[j] /\ runnable_now[j])
            => runs'[j] = 1
       /\ (runs[j] = 0 /\ runs'[j] = 1 /\ ~runnable_now[j])
            => (now > EverySOf(j) /\ last_run_t[j] = 0)
       /\ (Updates(j) /\ enable[j] /\ ~runnable_now[j] /\ runs[j] = 0
             /\ now > EverySOf(j))
            => runs'[j] = 1
       /\ (pc # "import" /\ last_run_t'[j] # last_run_t[j])
            => runs'[j] = runs[j] + 1]_vars

C15_Witness ==
  /\ ~runnable_now["ecogaz"]
  /\ runnable_now["ecowatt"]
  /\ runs["ecogaz"] = 1
  /\ runs["ecowatt"] = 1
  /\ last_run_t["ecogaz"] = 3601
  /\ last_run_t["ecowatt"] = 0


\* C16: while a job is in its fetch and decode phase, the main thread does
\* not hold the lock: a read that waits for the lock finds it free.
C16_NoLockWhileFetching ==
  pc \in {"fetch", "window"} =>
    /\ lock # "main"
    /\ rd_pc = "wait" => (lock = "free" /\ ENABLED RdAcquire)

C16_Witness ==
  /\ pc = "fetch"
  /\ JobOrder[cur] = "ecowatt"
  /\ runs["ecowatt"] = 2
  /\ rd_pc = "read"
  /\ lock = "server"
  /\ Len(rd_acc) = 3

\* C20: the lock is held only by a thread that is inside its with block, and
\* a thread that waits for the lock ends up inside its with block.
C20_LockReleased ==
  /\ [](lock = "server" => rd_pc = "read")
  /\ [](lock = "main" => pc \in {"write", "debug_log"})
  /\ [](lock = "free" => (rd_pc # "read" /\ pc \notin {"write", "debug_log"}))
  /\ (rd_pc = "wait") ~> (rd_pc = "read")
  /\ (pc = "acquire") ~> (pc = "write")
  /\ (pc = "debug_lock") ~> (pc = "debug_log")

C20_Witness ==
  /\ rd_pc = "done"
  /\ ~rd_result.ok
  /\ rd_addr = 5
  /\ rd_num = 96
  /\ pc = "write"
  /\ lock = "main"
  /\ d_idx = 2


\* C18: when the fetch of a job never returns, every other job that is due
\* is run in the end.
C18_HangDoesNotStarve ==
  \A j \in Jobs :
    (pc = "hung" /\ JobOrder[cur] # j /\ Due(j) /\ runs[j] = 0)
      ~> (runs[j] > 0)

\* C19: the table always has the registers 0..5 and 100..103 and no other;
\* a register changes only in the registers update of the job that owns its
\* block; DebugJob.run and the reads change no register.
C19_OwnBlockOnly ==
  [][/\ DOMAIN regs = MapAddrs
     /\ DOMAIN regs' = MapAddrs
     /\ \A a \in MapAddrs :
          regs'[a] # regs[a] =>
            /\ pc = "write"
            /\ \/ JobOrder[cur] = "ecogaz" /\ a \in 0..5
               \/ JobOrder[cur] = "ecowatt" /\ a \in 100..103
     /\ (pc \in {"debug_lock", "debug_log"} \/ rd_pc' # rd_pc \/ rd_acc' # rd_acc)
          => regs' = regs]_vars

C19_Witness ==
  /\ done_runs["ecogaz"] = 2
  /\ done_runs["ecowatt"] = 1
  /\ done_runs["debug"] = 1
  /\ regs[101] = 2
  /\ regs[3] = 7
  /\ rd_pc = "done"
  /\ rd_result.ok

====
